---- MODULE Spec2Model ----
(***************************************************************************)
(* Model of the Cursor chat exporters of scripts/:                         *)
(*   export_bubbles_to_md.py  main()  - per-session assembly (inline list  *)
(*                                      or bubbleId fan-out) and rendering *)
(*   export_cursor_chat.py    main()  - aggregation over several stores,   *)
(*                                      sort, label filter, format_msg     *)
(* JSON values are tagged records; a string is its content id, the number  *)
(* of surrounding whitespace characters (pad) and the length of its        *)
(* stripped core (len), which is all that strip(), truthiness, slicing and *)
(* comparison against "user" read.                                         *)
(***************************************************************************)
EXTENDS Integers, Sequences, FiniteSets, TLC

-----------------------------------------------------------------------------
(* Bounds of the model *)

\* total number of message records (inline list elements and bubble rows)
\* the global store holds for the requested sessions
MaxItems == 3

\* total number of rows the aggregated stores hold
MaxRows == 3

-----------------------------------------------------------------------------
(* JSON values *)

Absent == [k |-> "absent"]
Null == [k |-> "null"]
Num(n) == [k |-> "num", n |-> n]
Str(s, pad, len) == [k |-> "str", s |-> s, pad |-> pad, len |-> len]
List(items) == [k |-> "list", items |-> items]
EmptyStr == Str("", 0, 0)
EmptyMap == [k |-> "map"]

\* dict.get(f): None when the key is missing
Field(m, f) == IF f \in DOMAIN m THEN m[f] ELSE Absent

\* dict.get(f, d)
GetD(m, f, d) == IF Field(m, f).k = "absent" THEN d ELSE m[f]

IsMap(v) == v.k = "map"

\* Python truth value
Truthy(v) ==
  CASE v.k = "num" -> v.n # 0
    [] v.k = "str" -> v.pad + v.len > 0
    [] v.k = "list" -> Len(v.items) > 0
    [] v.k = "map" -> \E f \in DOMAIN v \ {"k"} : v[f].k # "absent"
    [] OTHER -> FALSE

\* Python  a or b
Or(a, b) == IF Truthy(a) THEN a ELSE b

\* x == 1
Is1(v) == v.k = "num" /\ v.n = 1

\* str.strip()
Strip(v) == [v EXCEPT !.pad = 0]

\* str.lower() on the content ids used here
Lower(s) ==
  CASE s = "USER" -> "user"
    [] s = "User" -> "user"
    [] OTHER -> s

\* s.lower() == "user"
LowerIsUser(v) == v.k = "str" /\ v.pad = 0 /\ Lower(v.s) = "user"

\* text[:n]
Take(v, n) == [v EXCEPT !.len = IF v.len < n THEN v.len ELSE n]

\* datetime.fromtimestamp(ts / 1000).strftime(...) if ts else ""
TimeStr(ts) == IF ts.n = 0 THEN [t |-> "empty"] ELSE [t |-> "at", sec |-> ts.n \div 1000]

-----------------------------------------------------------------------------
(* Stored values and decoding *)

Json(v) == [enc |-> "json", val |-> v]
B64(v) == [enc |-> "b64", val |-> v]
Junk == [enc |-> "junk", val |-> Null]

\* json.loads(raw), falling back to json.loads(base64.b64decode(raw))
decode(raw) ==
  IF raw.enc = "json" THEN [ok |-> TRUE, val |-> raw.val]
  ELSE IF raw.enc = "b64" THEN [ok |-> TRUE, val |-> raw.val]
  ELSE [ok |-> FALSE, val |-> Null]

-----------------------------------------------------------------------------
(* Message resolution.  A result is [ok |-> FALSE] when the Python code    *)
(* raises, else the role, the rendered time and the stripped text.         *)

Failed == [ok |-> FALSE]
Resolved(role, ts, text) ==
  [ok |-> TRUE, role |-> role, time |-> TimeStr(ts), text |-> Strip(text)]

\* ts = a or b or 0, used as  fromtimestamp(ts / 1000) if ts else ""
TsUsable(ts) == ~Truthy(ts) \/ ts.k = "num"

\* variant: the role field is ignored
inline_role_type_only(msg) == IF Is1(Field(msg, "type")) THEN "User" ELSE "Assistant"

\* role of an inline list element (export_bubbles_to_md.py line 56)
inline_role(msg) ==
  IF Is1(Field(msg, "type")) \/ LowerIsUser(Or(Field(msg, "role"), EmptyStr))
  THEN "User" ELSE "Assistant"

\* role of a bubble record (export_bubbles_to_md.py line 75)
bubble_role(b) ==
  IF Is1(Or(Or(Field(b, "type"), Field(b, "role")), Num(0)))
     \/ LowerIsUser(GetD(b, "role", EmptyStr))
  THEN "User" ELSE "Assistant"

\* role in format_msg (export_cursor_chat.py line 75)
format_role(msg) == IF Is1(Field(msg, "type")) THEN "User" ELSE "Assistant"

\* export_bubbles_to_md.py, inline list element (a dict)
resolveInline(msg) ==
  LET typ1 == Is1(Field(msg, "type"))
      r0 == Or(Field(msg, "role"), EmptyStr)
      t0 == Or(Or(Or(Field(msg, "text"), Field(msg, "content")), Field(msg, "rawText")), EmptyStr)
      ti == GetD(msg, "timingInfo", EmptyMap)
      ts == Or(Or(Field(ti, "clientStartTime"), Field(msg, "timestamp")), Num(0))
  IN  IF ~(typ1 \/ r0.k = "str") THEN Failed
      ELSE IF t0.k # "str" THEN Failed
      ELSE IF ~IsMap(ti) THEN Failed
      ELSE IF ~TsUsable(ts) THEN Failed
      ELSE Resolved(inline_role(msg), ts, t0)

\* export_bubbles_to_md.py, decoded bubble record
resolveBubble(b) ==
  LET t3 == Or(Or(Field(b, "text"), Field(b, "content")), Field(b, "rawText"))
      mf == GetD(b, "message", EmptyMap)
      t0 == IF Truthy(t3) THEN t3 ELSE Or(Field(mf, "text"), EmptyStr)
      ti == Or(Field(b, "timingInfo"), EmptyMap)
      ts == Or(Or(Field(ti, "clientStartTime"), Field(b, "timestamp")), Num(0))
  IN  IF ~IsMap(b) THEN Failed
      ELSE IF ~Truthy(t3) /\ ~IsMap(mf) THEN Failed
      ELSE IF t0.k # "str" THEN Failed
      ELSE IF ~IsMap(ti) THEN Failed
      ELSE IF ~TsUsable(ts) THEN Failed
      ELSE Resolved(bubble_role(b), ts, t0)

\* the code blocks format_msg appends: those whose stripped code is non-empty
RECURSIVE codeParts(_)
codeParts(blocks) ==
  IF Len(blocks) = 0 THEN [ok |-> TRUE, parts |-> <<>>]
  ELSE LET b == Head(blocks)
           code == Or(Field(b, "code"), EmptyStr)
           rest == codeParts(Tail(blocks))
       IN  IF ~IsMap(b) \/ code.k # "str" THEN [ok |-> FALSE, parts |-> <<>>]
           ELSE IF ~rest.ok THEN rest
           ELSE IF Strip(code).len > 0
             THEN [ok |-> TRUE,
                   parts |-> <<[language |-> GetD(b, "language", EmptyStr), code |-> Strip(code)]>>
                             \o rest.parts]
           ELSE rest

\* export_cursor_chat.py format_msg: the rendered block of one list element
format_msg(msg) ==
  IF ~IsMap(msg) THEN [ok |-> TRUE, l |-> "invalid"]
  ELSE
    LET ti == GetD(msg, "timingInfo", EmptyMap)
        ts == GetD(ti, "clientStartTime", Num(0))
        t0 == Or(Field(msg, "text"), EmptyStr)
        cb == Field(msg, "codeBlocks")
        cp == IF ~Truthy(cb) THEN [ok |-> TRUE, parts |-> <<>>]
              ELSE IF cb.k # "list" THEN [ok |-> FALSE, parts |-> <<>>]
              ELSE codeParts(cb.items)
    IN  IF ~IsMap(ti) THEN Failed
        ELSE IF ~TsUsable(ts) THEN Failed
        ELSE IF t0.k # "str" THEN Failed
        ELSE IF ~cp.ok THEN Failed
        ELSE [ok |-> TRUE, l |-> "msg",
              role |-> format_role(msg),
              time |-> TimeStr(IF Truthy(ts) THEN ts ELSE Num(0)),
              text |-> Strip(t0), code |-> cp.parts]

-----------------------------------------------------------------------------
(* Sample store contents *)

Msg(type, role, text, content, rawText, message, timingInfo, timestamp) ==
  [k |-> "map", type |-> type, role |-> role, text |-> text, content |-> content,
   rawText |-> rawText, message |-> message, timingInfo |-> timingInfo,
   timestamp |-> timestamp, codeBlocks |-> Absent]

Timing(ts) == [k |-> "map", clientStartTime |-> ts]

\* {type: 1, text: " hi ", timingInfo: {clientStartTime: 1000}}
mUser ==
  Msg(Num(1), Absent, Str("hi", 2, 2), Absent, Absent, Absent, Timing(Num(1000)), Absent)
\* {type: 2, content: <60000 characters>, timestamp: 2500}
mLong ==
  Msg(Num(2), Absent, Absent, Str("long", 0, 60000), Absent, Absent, Absent, Num(2500))
\* {type: 2, role: "USER", rawText: "raw"}
mRoleUser ==
  Msg(Num(2), Str("USER", 0, 4), Absent, Absent, Str("raw", 0, 3), Absent, Absent, Absent)
\* {role: 1, message: {text: "nested"}}
mRoleNum ==
  Msg(Absent, Num(1), Absent, Absent, Absent, [k |-> "map", text |-> Str("nested", 0, 6)],
      Absent, Absent)
\* {type: 1, text: {text: "inner"}}
mTextMap ==
  Msg(Num(1), Absent, [k |-> "map", text |-> Str("inner", 0, 5)], Absent, Absent, Absent,
      Absent, Absent)
\* {type: 1, text: <60000 characters>}
mLongUser ==
  Msg(Num(1), Absent, Str("long", 0, 60000), Absent, Absent, Absent, Absent, Absent)
\* {}
mBare == Msg(Absent, Absent, Absent, Absent, Absent, Absent, Absent, Absent)
\* a list element that is no dict
mNonMap == Str("oops", 0, 4)

InlineElems == {mUser, mLong, mRoleUser, mRoleNum, mBare, mNonMap}

\* non-empty lists of at most n sample elements
ListsUpTo(n) == UNION {[1..m -> InlineElems] : m \in 1..n}

Data(name, title, conversation, bubbles, messages) ==
  [k |-> "map", name |-> name, title |-> title, conversation |-> conversation,
   bubbles |-> bubbles, messages |-> messages]

\* values of the composerData:<id> row
SessionRaws ==
  {Junk, Json(List(<<mUser>>)), B64(Num(7))}
  \cup {Json(Data(Str("Demo", 0, 4), Absent, List(L), Absent, Absent)) : L \in ListsUpTo(MaxItems)}
  \cup {B64(Data(Absent, Str("Titled", 0, 6), Absent, List(<<mUser>>), Absent)),
        Json(Data(Absent, Absent, List(<<>>), Absent, List(<<mLong>>))),
        Json(Data(Absent, Absent, Str("see bubbles", 0, 11), List(<<mUser>>), Absent)),
        Json(Data(Str("Bare", 0, 4), Absent, Absent, Absent, Absent))}

\* key suffixes of bubbleId:<id>:<suffix> rows, as digit strings
BubbleKeys == {<<0, 0, 1>>, <<0, 1, 0>>, <<9>>}

BubbleRaws == {Json(mLongUser), B64(mRoleNum), Json(mTextMap), Junk}

BubbleRows == [key : BubbleKeys, value : BubbleRaws]

\* what fetchall() can return: n rows with pairwise distinct keys, in any order
FetchResults ==
  [n \in 0..MaxItems |->
     IF n > Cardinality(BubbleKeys) THEN {}
     ELSE {rows \in [1..n -> BubbleRows] :
             \A a, b \in 1..n : a # b => rows[a].key # rows[b].key}]

\* number of inline list elements a decoded session record holds
ItemCount(raw) ==
  LET d == raw.val
      n(v) == IF v.k = "list" THEN Len(v.items) ELSE 0
  IN  IF raw.enc = "junk" \/ ~IsMap(d) THEN 0
      ELSE n(Field(d, "conversation")) + n(Field(d, "bubbles")) + n(Field(d, "messages"))

-----------------------------------------------------------------------------
(* export_bubbles_to_md.py main() *)

VARIABLES
  pc,          \* "loop" | "done" | "crashed" (uncaught exception)
  reads,       \* per processed session: what the queries returned
  all_lines,   \* the output lines built so far
  out_file,    \* the written file
  \* export_cursor_chat.py main()
  chat_pc,                 \* "loop" | "done" | "crashed"
  db_reads,                \* per visited db path: the rows its queries returned
  all_conversations,       \* as collected, then sorted in place
  collected,               \* all_conversations as it was before the sort
  nexflow_conversations,   \* the exported sessions
  lines,                   \* the rendered blocks
  chat_file                \* the written file

bvars == <<pc, reads, all_lines, out_file>>
cvars == <<chat_pc, db_reads, all_conversations, collected, nexflow_conversations, lines,
           chat_file>>
vars == <<pc, reads, all_lines, out_file, chat_pc, db_reads, all_conversations, collected,
          nexflow_conversations, lines, chat_file>>

target_composer_ids == <<"3a3bed93", "88f9308a">>

\* text[:50000]
TextCap == 50000

\* Output lines.  cid and src are provenance annotations (the session and
\* the bubble key or list position a line was produced from).
LNotFound(c) == [l |-> "notfound", cid |-> c]
LParseError(c) == [l |-> "parseerror", cid |-> c]
LTitle(c, title) == [l |-> "title", cid |-> c, title |-> title]
LHeader(c, src, r) == [l |-> "header", cid |-> c, src |-> src, role |-> r.role, time |-> r.time]
LText(c, src, text) == [l |-> "text", cid |-> c, src |-> src, text |-> text]
LBlank(c, src) == [l |-> "blank", cid |-> c, src |-> src]
LBubbleFail(c, src) == [l |-> "bubblefail", cid |-> c, src |-> src]
LSep(c, kind) == [l |-> "sep", cid |-> c, kind |-> kind]

\* a < b for Python strings (strings of digits here)
RECURSIVE StrLess(_, _)
StrLess(a, b) ==
  IF Len(b) = 0 THEN FALSE
  ELSE IF Len(a) = 0 THEN TRUE
  ELSE IF Head(a) # Head(b) THEN Head(a) < Head(b)
  ELSE StrLess(Tail(a), Tail(b))

\* value of a digit string read as a decimal number
RECURSIVE DigitsValue(_)
DigitsValue(a) ==
  IF Len(a) = 0 THEN 0 ELSE 10 * DigitsValue(SubSeq(a, 1, Len(a) - 1)) + a[Len(a)]

\* variant: keys compared as numbers
key_less_numeric(a, b) == DigitsValue(a) < DigitsValue(b)

\* the comparison list.sort makes on the keys x[0]
key_less(a, b) == StrLess(a, b)

RECURSIVE insertRow(_, _)
insertRow(x, s) ==
  IF Len(s) = 0 THEN <<x>>
  ELSE IF key_less(x.key, Head(s).key) THEN <<x>> \o s
  ELSE <<Head(s)>> \o insertRow(x, Tail(s))

\* bubbles.sort(key=lambda x: x[0]) (stable)
RECURSIVE sort_bubbles(_)
sort_bubbles(rows) ==
  IF Len(rows) = 0 THEN <<>>
  ELSE insertRow(rows[Len(rows)], sort_bubbles(SubSeq(rows, 1, Len(rows) - 1)))

\* variant: a record that fails is skipped without a placeholder
bubble_lines_dropping(c, row) ==
  LET d == decode(row.value)
      r == IF d.ok THEN resolveBubble(d.val) ELSE Failed
  IN  IF ~r.ok THEN <<>>
      ELSE <<LHeader(c, row.key, r)>>
           \o (IF r.text.len > 0 THEN <<LText(c, row.key, Take(r.text, TextCap))>> ELSE <<>>)
           \o <<LBlank(c, row.key)>>

\* body of the loop over the sorted bubbles (lines 69-86)
bubble_lines(c, row) ==
  LET d == decode(row.value)
      r == IF d.ok THEN resolveBubble(d.val) ELSE Failed
  IN  IF ~r.ok THEN <<LBubbleFail(c, row.key)>>
      ELSE <<LHeader(c, row.key, r)>>
           \o (IF r.text.len > 0 THEN <<LText(c, row.key, Take(r.text, TextCap))>> ELSE <<>>)
           \o <<LBlank(c, row.key)>>

RECURSIVE fanout_lines(_, _)
fanout_lines(c, rows) ==
  IF Len(rows) = 0 THEN <<>>
  ELSE bubble_lines(c, Head(rows)) \o fanout_lines(c, Tail(rows))

\* body of the loop over an inline list (lines 53-62), from element j on
RECURSIVE inline_lines(_, _, _, _)
inline_lines(c, conv, j, acc) ==
  IF j > Len(conv) THEN [crashed |-> FALSE, lines |-> acc]
  ELSE IF ~IsMap(conv[j]) THEN inline_lines(c, conv, j + 1, acc)
  ELSE LET r == resolveInline(conv[j])
       IN  IF ~r.ok THEN [crashed |-> TRUE, lines |-> acc]
           ELSE inline_lines(c, conv, j + 1,
                  acc \o <<LHeader(c, j, r)>>
                      \o (IF r.text.len > 0 THEN <<LText(c, j, r.text)>> ELSE <<>>))

\* data.get("conversation") or data.get("bubbles") or data.get("messages") or []
conv_of(data) ==
  Or(Or(Or(Field(data, "conversation"), Field(data, "bubbles")), Field(data, "messages")),
     List(<<>>))

\* isinstance(conv, list) and len(conv) > 0
inline_usable(data) == conv_of(data).k = "list" /\ Len(conv_of(data).items) > 0

\* data.get("name") or data.get("title") or cid
title_of(data, cid) == Or(Or(Field(data, "name"), Field(data, "title")), Str(cid, 0, 8))

\* session records by the branch of main() they take
UndecodableRaws == {raw \in SessionRaws : ~decode(raw).ok}
NonMappingRaws == {raw \in SessionRaws : decode(raw).ok /\ ~IsMap(decode(raw).val)}
MappingRaws == {raw \in SessionRaws : decode(raw).ok /\ IsMap(decode(raw).val)}
InlineRaws == {raw \in MappingRaws : inline_usable(decode(raw).val)}
FanOutRaws == {raw \in MappingRaws : ~inline_usable(decode(raw).val)}

cur == Len(reads) + 1
Looping == pc = "loop" /\ cur <= Len(target_composer_ids)

RECURSIVE SumUsed(_)
SumUsed(rs) ==
  IF Len(rs) = 0 THEN 0
  ELSE (IF Head(rs).found THEN ItemCount(Head(rs).raw) ELSE 0)
       + (IF Head(rs).queried THEN Len(Head(rs).fetched) ELSE 0)
       + SumUsed(Tail(rs))

\* message records read so far
Used == SumUsed(reads)

ReadRow(raw) == [found |-> TRUE, raw |-> raw, queried |-> FALSE]

\* variant: nothing is recorded for a missing row
not_found_lines_silent(c) == <<>>

\* lines 34-36: no composerData row
not_found_lines(c) == <<LNotFound(c)>>

NotFound ==
  /\ Looping
  /\ reads' = Append(reads, [found |-> FALSE, queried |-> FALSE])
  /\ all_lines' = all_lines \o not_found_lines(cur)
  /\ UNCHANGED <<pc, out_file, cvars>>

\* lines 37-45: neither decoding path succeeds
ParseError ==
  /\ Looping
  /\ \E raw \in UndecodableRaws :
       /\ reads' = Append(reads, ReadRow(raw))
       /\ all_lines' = Append(all_lines, LParseError(cur))
  /\ UNCHANGED <<pc, out_file, cvars>>

\* line 47: data.get on a decoded value that is no dict raises AttributeError
NonMapping ==
  /\ Looping
  /\ \E raw \in NonMappingRaws :
       /\ reads' = Append(reads, ReadRow(raw))
  /\ pc' = "crashed"
  /\ UNCHANGED <<all_lines, out_file, cvars>>

\* lines 47-63
Inline ==
  /\ Looping
  /\ \E raw \in InlineRaws :
       LET data == decode(raw).val
           head == Append(all_lines, LTitle(cur, title_of(data, target_composer_ids[cur])))
           res == inline_lines(cur, conv_of(data).items, 1, <<>>)
       IN  /\ Used + ItemCount(raw) <= MaxItems
           /\ reads' = Append(reads, ReadRow(raw))
           /\ IF res.crashed
                THEN /\ pc' = "crashed"
                     /\ all_lines' = head \o res.lines
                ELSE /\ pc' = pc
                     /\ all_lines' = head \o res.lines \o <<LSep(cur, "inline")>>
  /\ UNCHANGED <<out_file, cvars>>

\* lines 47-51, 64-87
FanOut ==
  /\ Looping
  /\ \E raw \in FanOutRaws :
     \E n \in 0..(MaxItems - Used - ItemCount(raw)) :
     \E rows \in FetchResults[n] :
       LET data == decode(raw).val
       IN  /\ reads' = Append(reads, [found |-> TRUE, raw |-> raw, queried |-> TRUE,
                                      fetched |-> rows])
           /\ all_lines' = Append(all_lines, LTitle(cur, title_of(data, target_composer_ids[cur])))
                           \o fanout_lines(cur, sort_bubbles(rows))
                           \o <<LSep(cur, "fanout")>>
  /\ UNCHANGED <<pc, out_file, cvars>>

\* lines 89-92
Finish ==
  /\ pc = "loop" /\ cur > Len(target_composer_ids)
  /\ pc' = "done"
  /\ out_file' = [written |-> TRUE, lines |-> all_lines]
  /\ UNCHANGED <<reads, all_lines, cvars>>

BInit ==
  /\ pc = "loop"
  /\ reads = <<>>
  /\ all_lines = <<>>
  /\ out_file = [written |-> FALSE]

-----------------------------------------------------------------------------
(* export_cursor_chat.py *)

nexflow_ws_id == "10b583d2"

\* get_cursor_paths(): the global db, then the workspace dbs found
db_paths ==
  <<[storage |-> "globalStorage", dir |-> "globalStorage"],
    [storage |-> "workspaceStorage", dir |-> "77aa0c1e"],
    [storage |-> "workspaceStorage", dir |-> "10b583d2"]>>

\* line 102; "" stands for None
ws_id_of(path) == IF path.storage = "workspaceStorage" THEN path.dir ELSE ""

\* line 103
label_of(ws_id) ==
  IF ws_id = nexflow_ws_id THEN "NEXFLOW" ELSE IF ws_id # "" THEN ws_id ELSE "Global"

\* {text: "early", timingInfo: {clientStartTime: 500}}
mEarly ==
  Msg(Absent, Absent, Str("early", 0, 5), Absent, Absent, Absent, Timing(Num(500)), Absent)
\* {type: 1, text: "code", timingInfo: {clientStartTime: 1000},
\*  codeBlocks: [{language: "py", code: " x "}, {code: ""}]}
mCode ==
  [Msg(Num(1), Absent, Str("code", 0, 4), Absent, Absent, Absent, Timing(Num(1000)), Absent)
     EXCEPT !.codeBlocks =
       List(<<[k |-> "map", language |-> Str("py", 0, 2), code |-> Str("x", 2, 1)],
              [k |-> "map", language |-> Absent, code |-> EmptyStr]>>)]

Conv(items) == Data(Absent, Absent, List(items), Absent, Absent)

\* values of composerData:% rows of cursorDiskKV
KvRaws ==
  {Json(Conv(<<mBare>>)),              \* first timestamp missing
   Json(Conv(<<mUser, mNonMap>>)),     \* 1000
   B64(Conv(<<mCode, mRoleUser>>)),    \* 1000
   Json(Conv(<<mEarly>>)),             \* 500
   Json(Conv(<<mNonMap, mUser>>)),     \* first element no dict
   Json(Conv(<<mEarly, mTextMap>>)),   \* text of the second element is a dict
   Junk}

\* values of the chat/composer rows of ItemTable
ItemRaws == {Json(Conv(<<mLong>>)), B64(Conv(<<mUser>>))}

\* what the two queries of extract_from_db return for one db
DbContents ==
  [n \in 0..MaxRows |->
     UNION {[kv : [1..a -> KvRaws], item : [1..(n - a) -> ItemRaws]] : a \in 0..n}]

\* lines 35-49: the conversation a cursorDiskKV row yields, if any
kv_conversation(db, pos, raw, workspace_id) ==
  LET d == decode(raw)
      conv == Field(d.val, "conversation")
  IN  IF d.ok /\ IsMap(d.val) /\ Truthy(conv) /\ conv.k # "num"
      THEN <<[id |-> <<db, "kv", pos>>, data |-> d.val, workspace_id |-> workspace_id]>>
      ELSE <<>>

\* lines 55-63: the conversation an ItemTable row yields, if any
item_conversation(db, pos, raw, workspace_id) ==
  IF raw.enc = "json" /\ IsMap(raw.val) /\ Truthy(Field(raw.val, "conversation"))
  THEN <<[id |-> <<db, "item", pos>>, data |-> raw.val, workspace_id |-> workspace_id]>>
  ELSE <<>>

RECURSIVE kv_loop(_, _, _, _)
kv_loop(db, rows, j, workspace_id) ==
  IF j > Len(rows) THEN <<>>
  ELSE kv_conversation(db, j, rows[j], workspace_id) \o kv_loop(db, rows, j + 1, workspace_id)

RECURSIVE item_loop(_, _, _, _)
item_loop(db, rows, j, workspace_id) ==
  IF j > Len(rows) THEN <<>>
  ELSE item_conversation(db, j, rows[j], workspace_id)
       \o item_loop(db, rows, j + 1, workspace_id)

\* extract_from_db(db_path, workspace_id)
extract_from_db(db, content, workspace_id) ==
  kv_loop(db, content.kv, 1, workspace_id) \o item_loop(db, content.item, 1, workspace_id)

\* lines 105-106: c["_source"] = label
Labelled(convos, label) ==
  [j \in 1..Len(convos) |->
     [id |-> convos[j].id, data |-> convos[j].data, workspace_id |-> convos[j].workspace_id,
      source |-> label]]

\* conv[0].get("timingInfo", {}).get("clientStartTime", 0) of a non-empty conv
first_ts(conv) ==
  IF conv.k # "list" \/ ~IsMap(conv.items[1]) THEN Failed
  ELSE LET ti == GetD(conv.items[1], "timingInfo", EmptyMap)
       IN  IF ~IsMap(ti) THEN Failed
           ELSE [ok |-> TRUE, ts |-> GetD(ti, "clientStartTime", Num(0))]

\* sort_key(c), lines 111-115
sort_key(c) ==
  LET conv == Or(Field(c.data, "conversation"), List(<<>>))
  IN  IF ~Truthy(conv) THEN [ok |-> TRUE, ts |-> Num(0)] ELSE first_ts(conv)

\* list.sort calls sort_key on every element and compares the keys with <
\* (keys that are not all numbers raise TypeError once two are compared)
keys_usable(cs) ==
  /\ \A j \in 1..Len(cs) : sort_key(cs[j]).ok
  /\ Len(cs) >= 2 => \A j \in 1..Len(cs) : sort_key(cs[j]).ts.k = "num"

\* variant: x goes before the elements with an equal key (an unstable sort)
RECURSIVE insert_conversation_unstable(_, _)
insert_conversation_unstable(x, s) ==
  IF Len(s) = 0 THEN <<x>>
  ELSE IF sort_key(x).ts.n <= sort_key(Head(s)).ts.n THEN <<x>> \o s
  ELSE <<Head(s)>> \o insert_conversation_unstable(x, Tail(s))

\* where list.sort puts x in the sorted s: after the elements that are not greater
RECURSIVE insert_conversation(_, _)
insert_conversation(x, s) ==
  IF Len(s) = 0 THEN <<x>>
  ELSE IF sort_key(x).ts.n < sort_key(Head(s)).ts.n THEN <<x>> \o s
  ELSE <<Head(s)>> \o insert_conversation(x, Tail(s))

\* all_conversations.sort(key=sort_key)
RECURSIVE sort_conversations(_)
sort_conversations(cs) ==
  IF Len(cs) <= 1 THEN cs
  ELSE insert_conversation(cs[Len(cs)], sort_conversations(SubSeq(cs, 1, Len(cs) - 1)))

\* c.get("_source") == "NEXFLOW" or c.get("_source") == "Global"
passes_filter(c) == c.source = "NEXFLOW" \/ c.source = "Global"

\* variant: no fallback to the unfiltered list
select_conversations_strict(cs) == SelectSeq(cs, passes_filter)

\* lines 120-122
select_conversations(cs) ==
  LET kept == SelectSeq(cs, passes_filter)
  IN  IF Len(kept) = 0 THEN cs ELSE kept

\* lines 132-134 for the elements of conv from j on
RECURSIVE message_blocks(_, _, _)
message_blocks(id, conv, j) ==
  IF j > Len(conv) THEN [crashed |-> FALSE, lines |-> <<>>]
  ELSE LET m == format_msg(conv[j])
           rest == message_blocks(id, conv, j + 1)
       IN  IF ~m.ok THEN [crashed |-> TRUE, lines |-> <<>>]
           ELSE IF rest.crashed THEN rest
           ELSE [crashed |-> FALSE,
                 lines |-> <<[id |-> id, pos |-> j, block |-> m], [l |-> "sep", id |-> id]>>
                           \o rest.lines]

\* lines 125-135 for one exported conversation
render_conversation(c) ==
  LET conv == Or(Field(c.data, "conversation"), List(<<>>))
      ft == first_ts(conv)
      body == message_blocks(c.id, conv.items, 1)
  IN  IF ~Truthy(conv) THEN [crashed |-> FALSE, lines |-> <<>>]
      ELSE IF ~ft.ok \/ ~TsUsable(ft.ts) \/ body.crashed THEN [crashed |-> TRUE, lines |-> <<>>]
      ELSE [crashed |-> FALSE,
            lines |-> <<[l |-> "heading", source |-> c.source, id |-> c.id,
                         time |-> TimeStr(IF Truthy(ft.ts) THEN ft.ts ELSE Num(0))]>>
                      \o body.lines \o <<[l |-> "blank", id |-> c.id]>>]

RECURSIVE render(_)
render(cs) ==
  IF Len(cs) = 0 THEN [crashed |-> FALSE, lines |-> <<>>]
  ELSE LET h == render_conversation(Head(cs))
           rest == render(Tail(cs))
       IN  IF h.crashed THEN h
           ELSE IF rest.crashed THEN rest
           ELSE [crashed |-> FALSE, lines |-> h.lines \o rest.lines]

db_cur == Len(db_reads) + 1
Collecting == chat_pc = "loop" /\ db_cur <= Len(db_paths)

RECURSIVE SumRows(_)
SumRows(rs) ==
  IF Len(rs) = 0 THEN 0
  ELSE (IF Head(rs).exists THEN Len(Head(rs).content.kv) + Len(Head(rs).content.item) ELSE 0)
       + SumRows(Tail(rs))

\* rows read so far
RowsUsed == SumRows(db_reads)

\* lines 100-101: the db file does not exist (get_cursor_paths lists the
\* global db unconditionally)
SkipDb ==
  /\ Collecting
  /\ db_paths[db_cur].storage = "globalStorage"
  /\ db_reads' = Append(db_reads, [exists |-> FALSE])
  /\ UNCHANGED <<chat_pc, all_conversations, collected, nexflow_conversations, lines,
                 chat_file, bvars>>

\* lines 102-108
ReadDb ==
  /\ Collecting
  /\ \E n \in 0..(MaxRows - RowsUsed) :
     \E content \in DbContents[n] :
       LET ws_id == ws_id_of(db_paths[db_cur])
           convos == extract_from_db(db_cur, content, ws_id)
       IN  /\ db_reads' = Append(db_reads, [exists |-> TRUE, content |-> content])
           /\ all_conversations' = all_conversations \o Labelled(convos, label_of(ws_id))
  /\ UNCHANGED <<chat_pc, collected, nexflow_conversations, lines, chat_file, bvars>>

\* lines 110-140
Export ==
  /\ chat_pc = "loop" /\ db_cur > Len(db_paths)
  /\ collected' = all_conversations
  /\ IF ~keys_usable(all_conversations)
       THEN /\ chat_pc' = "crashed"
            /\ UNCHANGED <<all_conversations, nexflow_conversations, lines, chat_file>>
       ELSE LET sorted == sort_conversations(all_conversations)
                chosen == select_conversations(sorted)
                out == render(chosen)
            IN  /\ all_conversations' = sorted
                /\ nexflow_conversations' = chosen
                /\ IF out.crashed
                     THEN /\ chat_pc' = "crashed"
                          /\ UNCHANGED <<lines, chat_file>>
                     ELSE /\ chat_pc' = "done"
                          /\ lines' = out.lines
                          /\ chat_file' = [written |-> TRUE, lines |-> out.lines]
  /\ UNCHANGED <<db_reads, bvars>>

ChatInit ==
  /\ chat_pc = "loop"
  /\ db_reads = <<>>
  /\ all_conversations = <<>>
  /\ collected = <<>>
  /\ nexflow_conversations = <<>>
  /\ lines = <<>>
  /\ chat_file = [written |-> FALSE]

-----------------------------------------------------------------------------
(* Specifications *)

Init == BInit /\ ChatInit

\* a run of export_bubbles_to_md.py
Next == NotFound \/ ParseError \/ NonMapping \/ Inline \/ FanOut \/ Finish

Spec == Init /\ [][Next]_vars

\* a run of export_cursor_chat.py
ChatNext == SkipDb \/ ReadDb \/ Export

SpecChat == Init /\ [][ChatNext]_vars

-----------------------------------------------------------------------------
(* Properties of export_bubbles_to_md.py (checked under Spec) *)

\* a sorts before b in lexicographic order
LexLess(a, b) ==
  \E i \in 1..(Len(a) + 1) :
    /\ i <= Len(b)
    /\ \A j \in 1..(i - 1) : a[j] = b[j]
    /\ (i > Len(a) \/ a[i] < b[i])

Processed == 1..Len(reads)
IsFanOut(c) == reads[c].found /\ reads[c].queried
IsEntry(l) == l.l \in {"header", "bubblefail"}

\* the message entries emitted for session c, in output order
Entries(c) == SelectSeq(all_lines, LAMBDA l : l.cid = c /\ IsEntry(l))

FetchedKeys(c) == {reads[c].fetched[j].key : j \in 1..Len(reads[c].fetched)}
RowOf(c, key) ==
  reads[c].fetched[CHOOSE j \in 1..Len(reads[c].fetched) : reads[c].fetched[j].key = key]

\* C1: the entries of a session assembled by fan-out appear in ascending
\* lexicographic order of their record keys, one per fetched key, whatever
\* order the prefix query returned the rows in.
C1_FanOutKeyOrder ==
  \A c \in Processed :
    IsFanOut(c) =>
      LET es == Entries(c)
      IN  /\ {es[j].src : j \in 1..Len(es)} = FetchedKeys(c)
          /\ \A a, b \in 1..Len(es) : a < b => LexLess(es[a].src, es[b].src)

\* three rows returned as 9, 010, 001 have been assembled and written
C1_Witness ==
  /\ pc = "done"
  /\ \E c \in Processed :
       /\ IsFanOut(c)
       /\ Len(reads[c].fetched) = 3
       /\ reads[c].fetched[1].key = <<9>>
       /\ reads[c].fetched[2].key = <<0, 1, 0>>
       /\ reads[c].fetched[3].key = <<0, 0, 1>>

\* rank of a key among the fetched keys of session c
KeyRank(c, key) == Cardinality({k \in FetchedKeys(c) : LexLess(k, key)}) + 1

\* C3: in the fan-out strategy every matched record yields exactly one
\* entry, at its position in key order: a diagnostic placeholder for a
\* record that does not decode (or does not resolve), a resolved message
\* for the others; the entry count equals the number of matched records.
C3_FanOutPlaceholders ==
  \A c \in Processed :
    IsFanOut(c) =>
      LET es == Entries(c)
      IN  /\ Len(es) = Len(reads[c].fetched)
          /\ \A j \in 1..Len(es) :
               /\ es[j].src \in FetchedKeys(c)
               /\ KeyRank(c, es[j].src) = j
               /\ LET v == RowOf(c, es[j].src).value
                  IN  /\ v.enc = "junk" => es[j].l = "bubblefail"
                      /\ v = Json(mTextMap) => es[j].l = "bubblefail"
                      /\ v \in {Json(mLongUser), B64(mRoleNum)} => es[j].l = "header"

\* an undecodable record lies between two resolvable ones in key order
C3_Witness ==
  /\ pc = "done"
  /\ \E c \in Processed :
       /\ IsFanOut(c)
       /\ Len(reads[c].fetched) = 3
       /\ RowOf(c, <<0, 1, 0>>).value = Junk
       /\ RowOf(c, <<0, 0, 1>>).value = Json(mLongUser)
       /\ RowOf(c, <<9>>).value = B64(mRoleNum)
       /\ reads[c].fetched[1].key = <<0, 1, 0>>

\* the lines emitted for session c
SectionOf(c) == SelectSeq(all_lines, LAMBDA l : l.cid = c)

\* C5: a requested id without a record gets a section holding only the
\* "not found" annotation, raises no error, and the loop goes on to the
\* next id (the section is in the written file).
C5_MissingRecordSection ==
  \A c \in Processed :
    ~reads[c].found =>
      /\ SectionOf(c) = <<[l |-> "notfound", cid |-> c]>>
      /\ c = Len(reads) => pc \in {"loop", "done"}
      /\ pc = "done" =>
           \E i \in 1..Len(out_file.lines) : out_file.lines[i] = [l |-> "notfound", cid |-> c]

\* the first id had no record, the second one was processed, the file written
C5_Witness ==
  /\ pc = "done"
  /\ Len(reads) = 2
  /\ ~reads[1].found
  /\ reads[2].found

\* the decoded mapping a header line was resolved from
SourceOf(l) ==
  IF reads[l.cid].queried THEN decode(RowOf(l.cid, l.src).value).val
  ELSE conv_of(decode(reads[l.cid].raw).val).items[l.src]

Headers == {i \in 1..Len(all_lines) : all_lines[i].l = "header"}

\* the role field is a string equal to "user" when case is ignored
RoleNamesUser(m) ==
  Field(m, "role").k = "str" /\ Field(m, "role").pad = 0
  /\ Field(m, "role").s \in {"user", "User", "USER"}

TypeIs1(m) == Field(m, "type").k = "num" /\ Field(m, "type").n = 1

AliasLists(c) ==
  LET d == decode(reads[c].raw)
  IN  IF ~reads[c].found \/ ~d.ok \/ ~IsMap(d.val) THEN <<>>
      ELSE SelectSeq(<<Field(d.val, "conversation"), Field(d.val, "bubbles"),
                       Field(d.val, "messages")>>,
                     LAMBDA v : v.k = "list" /\ Len(v.items) > 0)

\* C2 as stated: a session whose record holds a non-empty list under an
\* alias gets exactly that list's elements, in order, and no per-message
\* query; every other session is assembled by the prefix query, one entry
\* per matched record.
C2_StrategySelection ==
  \A c \in Processed :
    (pc = "crashed" /\ c = Len(reads)) \/
    IF Len(AliasLists(c)) > 0
    THEN /\ ~reads[c].queried
         /\ Len(Entries(c)) = Len(AliasLists(c)[1].items)
         /\ \A j \in 1..Len(Entries(c)) : Entries(c)[j].src = j
    ELSE /\ reads[c].queried
         /\ Len(Entries(c)) = Len(reads[c].fetched)

\* C4 as stated: no record-level failure aborts the run, and once the run
\* is over every requested id has its section in the written file.
C4_RunCompletes ==
  /\ pc # "crashed"
  /\ pc = "done" =>
       \A c \in 1..Len(target_composer_ids) :
         \E i \in 1..Len(out_file.lines) : out_file.lines[i].cid = c

\* C9 as stated: every rendered body is capped at 50,000 characters, in
\* the inline strategy as in the fan-out strategy.
C9_BodiesCapped ==
  \A i \in 1..Len(all_lines) : all_lines[i].l = "text" => all_lines[i].text.len <= TextCap

-----------------------------------------------------------------------------
(* Properties of export_cursor_chat.py (checked under SpecChat) *)

\* timestamp of the first message of a collected session; missing is 0
FirstStamp(c) ==
  LET m == c.data.conversation.items[1]
  IN  IF "timingInfo" \notin DOMAIN m \/ m.timingInfo.k # "map" THEN 0
      ELSE IF m.timingInfo.clientStartTime.k # "num" THEN 0
      ELSE m.timingInfo.clientStartTime.n

\* position of a session in the input of the aggregation
InputPos(c) == CHOOSE p \in 1..Len(collected) : collected[p].id = c.id

Ids(cs) == {cs[j].id : j \in 1..Len(cs)}
PassingIds == {collected[j].id : j \in {p \in 1..Len(collected) :
                                          collected[p].source \in {"Global", "NEXFLOW"}}}

\* C6: the exported sessions are in non-decreasing order of their first
\* message's timestamp (missing counts as 0), sessions with equal stamps
\* keep their input order, and filtering before the sort gives the same
\* sequence as the filtering after the sort that the code does.
C6_StableSortByFirstTimestamp ==
  chat_pc = "done" =>
    /\ \A a, b \in 1..Len(nexflow_conversations) :
         a < b =>
           LET x == nexflow_conversations[a]
               y == nexflow_conversations[b]
           IN  /\ FirstStamp(x) <= FirstStamp(y)
               /\ FirstStamp(x) = FirstStamp(y) => InputPos(x) < InputPos(y)
    /\ \A j \in 1..Len(nexflow_conversations) :
         nexflow_conversations[j] = collected[InputPos(nexflow_conversations[j])]
    /\ nexflow_conversations = sort_conversations(select_conversations(collected))

\* a later-collected session with an earlier stamp was moved ahead of two
\* sessions with equal stamps
C6_Witness ==
  /\ chat_pc = "done"
  /\ Len(nexflow_conversations) = 3
  /\ InputPos(nexflow_conversations[1]) = 3
  /\ FirstStamp(nexflow_conversations[1]) = 500
  /\ FirstStamp(nexflow_conversations[2]) = 1000
  /\ FirstStamp(nexflow_conversations[3]) = 1000

\* C7: the exported set is the sessions labelled Global or NEXFLOW when
\* there is one, and the whole input otherwise; it is empty only when the
\* input is empty, and holds a non-matching session only when none matches.
\* The rendered headings are those of the exported sessions, in order.
C7_FilterFallback ==
  chat_pc = "done" =>
    /\ Ids(nexflow_conversations) = (IF PassingIds # {} THEN PassingIds ELSE Ids(collected))
    /\ Len(nexflow_conversations) = Cardinality(Ids(nexflow_conversations))
    /\ Len(nexflow_conversations) = 0 => Len(collected) = 0
    /\ (\E j \in 1..Len(nexflow_conversations) :
          nexflow_conversations[j].source \notin {"Global", "NEXFLOW"}) => PassingIds = {}
    /\ LET hs == SelectSeq(lines, LAMBDA l : "l" \in DOMAIN l /\ l.l = "heading")
       IN  /\ Len(hs) = Len(nexflow_conversations)
           /\ \A j \in 1..Len(hs) : hs[j].id = nexflow_conversations[j].id

\* only another workspace holds sessions, and they were all exported
C7_Witness ==
  /\ chat_pc = "done"
  /\ Len(collected) = 2
  /\ PassingIds = {}
  /\ Len(nexflow_conversations) = 2
  /\ chat_file.written

\* every element of every collected conversation resolves in format_msg
\* unless it is no mapping
OnlyNonMappingsMalformed ==
  \A j \in 1..Len(collected) :
    LET conv == collected[j].data.conversation
    IN  conv.k = "list" /\ \A e \in 1..Len(conv.items) : format_msg(conv.items[e]).ok

\* C10 as stated: a list element that is no mapping never crashes the run
\* and is rendered as a parse-failure marker at its position, wherever it
\* stands in the list (the first position included).
C10_NonMappingMarked ==
  (chat_pc # "loop" /\ OnlyNonMappingsMalformed) =>
    /\ chat_pc = "done"
    /\ \A j \in 1..Len(nexflow_conversations) :
         LET c == nexflow_conversations[j]
         IN  \A e \in 1..Len(c.data.conversation.items) :
               ~IsMap(c.data.conversation.items[e]) =>
                 \E i \in 1..Len(lines) :
                   /\ "block" \in DOMAIN lines[i]
                   /\ lines[i].id = c.id /\ lines[i].pos = e
                   /\ lines[i].block.l = "invalid"

====
